---- MODULE Spec2Model ----
(***************************************************************************)
(* Alpha-Gobang-Zero: the board engine (alphazero/chess_board.py) and the  *)
(* self-play training loop (alphazero/train.py) as state machines.         *)
(*                                                                         *)
(* Spec       the ChessBoard object driven by a caller that plays moves    *)
(*            out of an opening book (a board size and the cells each      *)
(*            colour picks from), probes illegal moves and clears.         *)
(* SpecPlanes the same object and caller on three of the books, for the    *)
(*            feature planes, which are read in every state.               *)
(* SpecTrain  TrainPipeLine.train on the default 9x9 board: self-play      *)
(*            episodes, the example store and its drain into batches, and  *)
(*            the evaluation matches against the best model, one ply or    *)
(*            one batch per step, with a scripted search component.        *)
(***************************************************************************)
EXTENDS Integers, Sequences, FiniteSets, TLC

VARIABLES
    board_len,          \* ChessBoard.board_len
    state,              \* ChessBoard.state: OrderedDict, as a sequence of <<action, player>>
    current_player,     \* ChessBoard.current_player
    previous_action,    \* ChessBoard.previous_action: None or Some(action)
    available_actions,  \* ChessBoard.available_actions: a list
    ret,                \* how the last call on the board ended
    moves,              \* history: the actions applied without error since the last clear
    book,               \* the caller's opening book: the cells each colour picks from
    wiped,              \* history: None, or Some(stones removed) when the last call was clear_board
    pc,                 \* where TrainPipeLine.train stands
    loop_i,             \* i, the index of the self-play loop in train
    batch_size,         \* TrainPipeLine.batch_size
    check_frequency,    \* TrainPipeLine.check_frequency
    is_self_play,       \* self.mcts.is_self_play
    net,                \* the weights of policy_value_net: 0 or the best model's as loaded, then i+1 once trained in iteration i
    net_mode,           \* policy_value_net.train() / .eval()
    best_model,         \* model/best_policy_value_net.pth: None or Some(weights)
    dataset,            \* self.dataset: the stored examples
    pending,            \* the batches the DataLoader has still to yield
    fed,                \* history: the batches handed to the network in this drain
    appended,           \* history: the ids of the examples appended since the last drain
    train_losses,       \* self.train_losses
    loss,               \* the loss of the batch trained last
    feature_planes_list, pi_list, players, z_list,   \* the locals of __self_play
    n_wins, game,       \* the locals of __test_model
    gate,               \* history: how __test_model last ended, and on what win rate
    n_tests,            \* history: how many times __test_model was entered
    last_model,         \* model/last_policy_value_net_{t}.pth: None or Some(weights)
    losses_file,        \* log/train_losses.json as the wrapper wrote it: None or Some(list)
    outcome             \* what the caller of train has seen: "running", "returned" or "raised"

boardVars == <<board_len, state, current_player, previous_action, available_actions>>
callVars == <<ret, moves, book, wiped>>
trainVars == <<pc, loop_i, batch_size, check_frequency, is_self_play, net, net_mode, best_model,
               dataset, pending, fed, appended, train_losses, loss,
               feature_planes_list, pi_list, players, z_list, n_wins, game, gate,
               n_tests, last_model, losses_file, outcome>>
vars == <<boardVars, callVars, trainVars>>

----------------------------------------------------------------------------
(* Python values *)

BLACK == 1
WHITE == 0
EMPTY == -1

None == <<>>
Some(x) == <<x>>

Range(s) == {s[i] : i \in 1..Len(s)}

Min(S) == CHOOSE x \in S : \A y \in S : x <= y

\* list(range(n))
RangeList(n) == [i \in 1..n |-> i - 1]

\* list.remove(x) on a list that holds x: the first occurrence goes
RemoveFirst(s, x) ==
    LET k == Min({i \in 1..Len(s) : s[i] = x})
    IN  [i \in 1..(Len(s) - 1) |-> IF i < k THEN s[i] ELSE s[i + 1]]

----------------------------------------------------------------------------
(* The OrderedDict self.state *)

Keys(st) == {st[i][1] : i \in 1..Len(st)}

\* self.state.get(i, self.EMPTY)
Get(st, i) ==
    IF \E k \in 1..Len(st) : st[k][1] = i
    THEN st[CHOOSE k \in 1..Len(st) : st[k][1] = i][2]
    ELSE EMPTY

\* self.state[action] = player: a new key goes last, an old key keeps its place
Put(st, action, player) ==
    IF action \in Keys(st)
    THEN [k \in 1..Len(st) |-> IF st[k][1] = action THEN <<action, player>> ELSE st[k]]
    ELSE Append(st, <<action, player>>)

----------------------------------------------------------------------------
(* ChessBoard.is_game_over *)

\* len(set(self.state.get(i, self.EMPTY) for i in range(start, start+5*step, step))) == 1
Same5(st, start, step) ==
    Cardinality({Get(st, start + j * step) : j \in 0..4}) = 1

\* seeded fault: the floor set at four stones
TooFewStones_Four(st) == Len(st) < 4

\* seeded fault: the floor counted per player instead of in total
TooFewStones_PerPlayer(st) == Cardinality({k \in 1..Len(st) : st[k][2] = BLACK}) < 9

TooFewStones(st) == Len(st) < 9

\* seeded fault: a row may start one column too far right
Horizontal_OffByOne(n, st, action) ==
    (action % n) <= n - 4 /\ Same5(st, action, 1)

Horizontal(n, st, action) ==
    (action % n) <= n - 5 /\ Same5(st, action, 1)

Vertical(n, st, action) ==
    (action \div n) <= n - 5 /\ Same5(st, action, n)

MainDiagonal(n, st, action) ==
    (action \div n) <= n - 5 /\ (action % n) <= n - 5 /\ Same5(st, action, n + 1)

AntiDiagonal(n, st, action) ==
    (action \div n) <= n - 5 /\ (action % n) >= 4 /\ Same5(st, action, n - 1)

RunFrom(n, st, action) ==
    \/ Horizontal(n, st, action)
    \/ Vertical(n, st, action)
    \/ MainDiagonal(n, st, action)
    \/ AntiDiagonal(n, st, action)

\* seeded fault: a full board is not seen as the end
NoMovesLeft_Never(avail) == FALSE

\* seeded fault: the draw test inverted
NoMovesLeft_Inverted(avail) == avail # <<>>

\* not self.available_actions
NoMovesLeft(avail) == avail = <<>>

\* <<is_over, winner>>
is_game_over(n, st, avail) ==
    IF TooFewStones(st) THEN <<FALSE, None>>
    ELSE LET hits == {k \in 1..Len(st) : RunFrom(n, st, st[k][1])}
         IN  IF hits # {} THEN <<TRUE, Some(st[Min(hits)][2])>>
             ELSE IF NoMovesLeft(avail) THEN <<TRUE, None>>
             ELSE <<FALSE, None>>

----------------------------------------------------------------------------
(* ChessBoard.get_feature_planes *)

Reverse(s) == [i \in 1..Len(s) |-> s[Len(s) + 1 - i]]

\* actions[players == p] / actions[players != p] over the reversed dict
ActionsOf(st, p, same) ==
    LET r == Reverse(st)
        pick == SelectSeq(r, LAMBDA e : (e[2] = p) = same)
    IN  [i \in 1..Len(pick) |-> pick[i][1]]

\* seeded fault: s[:i+1], the i+1 most recent instead of all but the i most recent
SliceFrom_UpTo(s, i) == {s[k] : k \in 1..(IF i + 1 < Len(s) THEN i + 1 ELSE Len(s))}

\* s[i:] as a set of cells (i counts from 0)
SliceFrom(s, i) == {s[k] : k \in (i + 1)..Len(s)}

\* the (9, board_len**2) tensor before the view
FlatPlanes(n, st, cur) ==
    LET Xt == ActionsOf(st, cur, TRUE)
        Yt == ActionsOf(st, cur, FALSE)
    IN  [ch \in 0..8 |->
            [cell \in 0..(n * n - 1) |->
                IF ch = 8 THEN cur
                ELSE IF st = <<>> THEN 0
                ELSE LET i == ch \div 2
                         src == IF ch % 2 = 0 THEN Xt ELSE Yt
                     IN  IF i < Len(src) /\ cell \in SliceFrom(src, i) THEN 1 ELSE 0]]

\* .view((9, board_len, board_len)): row-major
get_feature_planes(n, st, cur) ==
    LET flat == FlatPlanes(n, st, cur)
    IN  [ch \in 0..8 |-> [row \in 0..(n - 1) |-> [col \in 0..(n - 1) |-> flat[ch][row * n + col]]]]

----------------------------------------------------------------------------
(* The caller: opening books and illegal probes *)

\* illegal moves are probed on boards holding at most this many stones
MaxProbe == 2

Book(n, black, white) == [n |-> n, black |-> black, white |-> white]

Books ==
    { Book(2, {0, 1, 2, 3}, {0, 1, 2, 3}),           \* a board smaller than nine cells
      Book(3, {0, 2, 4, 6, 8}, {1, 3, 5, 7}),        \* nine cells, no room for a run
      Book(5, {0, 1, 2, 3, 4}, {5, 6, 7, 8, 9}),     \* two rows: either colour, or both
      Book(5, {0, 5, 10, 15, 20}, {1, 2, 3, 4}),     \* a column against four in a row
      Book(5, {0, 6, 12, 18, 24}, {1, 7, 13, 19}),   \* the main diagonal
      Book(5, {4, 8, 12, 16, 20}, {2, 7, 12, 17}),   \* the anti-diagonal, contested centre
      Book(5, {3, 7, 11, 15, 19}, {0, 1, 2, 5}),     \* step n-1 wrapping past the left edge
      Book(6, {1, 2, 3, 4, 5}, {7, 14, 21, 28}),     \* a row starting at column n-5
      Book(6, {2, 3, 4, 5, 6}, {8, 9, 10, 11}),      \* five indices wrapping to the next row
      Book(6, {4, 11, 18, 25, 32}, {5, 10, 15, 20}), \* step n+1 wrapping past the right edge
      Book(9, {0, 1, 2, 3, 4}, {9, 10, 11, 12}) }    \* the 9x9 default

PoolOf(b, player) == IF player = BLACK THEN b.black ELSE b.white

\* what the caller passes to do_action
Inputs ==
    (PoolOf(book, current_player) \cap Range(available_actions))
    \cup (IF Len(state) <= MaxProbe
          THEN {-1, board_len * board_len} \cup Keys(state)
          ELSE {})

\* the coordinates handed to do_action_: on the board or one step off it
Coordinates == (-1)..board_len

\* what the caller passes to do_action_: pairs, while the board holds few stones
PairInputs ==
    IF Len(state) <= MaxProbe
    THEN {pos \in Coordinates \X Coordinates : pos[1] * board_len + pos[2] \in Inputs}
    ELSE {}

----------------------------------------------------------------------------
(* ChessBoard *)

\* a ChessBoard of side n as __init__ leaves it
NewBoard(n) ==
    /\ board_len = n
    /\ current_player = BLACK
    /\ available_actions = RangeList(n * n)
    /\ state = <<>>
    /\ previous_action = None
    /\ ret = "init"
    /\ moves = <<>>
    /\ wiped = None

\* how __test_model ended, and the exact win rate wins/games against 55/100
Verdict(how, rate) == [how |-> how, rate |-> rate]

RateAgainst55(wins, games) ==
    IF 20 * wins > 11 * games THEN "above"
    ELSE IF 20 * wins = 11 * games THEN "equal"
    ELSE "below"

\* no pipeline around the board
NoPipeline ==
    /\ pc = "board"
    /\ loop_i = 0
    /\ batch_size = 0
    /\ check_frequency = 0
    /\ is_self_play = TRUE
    /\ net = 0
    /\ net_mode = "train"
    /\ best_model = None
    /\ dataset = <<>>
    /\ pending = <<>>
    /\ fed = <<>>
    /\ appended = <<>>
    /\ train_losses = <<>>
    /\ loss = None
    /\ feature_planes_list = <<>>
    /\ pi_list = <<>>
    /\ players = <<>>
    /\ z_list = <<>>
    /\ n_wins = 0
    /\ game = 0
    /\ gate = Verdict("none", "none")
    /\ n_tests = 0
    /\ last_model = None
    /\ losses_file = None
    /\ outcome = "running"

Init ==
    /\ book \in Books
    /\ NewBoard(book.n)
    /\ NoPipeline

\* seeded fault: the player to move survives the clear
clear_board_KeepsPlayer ==
    /\ state' = <<>>
    /\ previous_action' = None
    /\ available_actions' = RangeList(board_len * board_len)
    /\ ret' = "clear_board"
    /\ moves' = <<>>
    /\ wiped' = Some(Len(state))
    /\ UNCHANGED <<board_len, book, current_player>>

\* seeded fault: the previous action survives the clear
clear_board_StalePrevious ==
    /\ state' = <<>>
    /\ current_player' = BLACK
    /\ available_actions' = RangeList(board_len * board_len)
    /\ ret' = "clear_board"
    /\ moves' = <<>>
    /\ wiped' = Some(Len(state))
    /\ UNCHANGED <<board_len, book, previous_action>>

clear_board ==
    /\ state' = <<>>
    /\ previous_action' = None
    /\ current_player' = BLACK
    /\ available_actions' = RangeList(board_len * board_len)
    /\ ret' = "clear_board"
    /\ moves' = <<>>
    /\ wiped' = Some(Len(state))
    /\ UNCHANGED <<board_len, book>>

\* seeded fault: the legal list is never shortened
do_action_NoRemove(action) ==
    /\ previous_action' = Some(action)
    /\ wiped' = None
    /\ IF action \in Range(available_actions)
       THEN /\ state' = Put(state, action, current_player)
            /\ current_player' = WHITE + BLACK - current_player
            /\ ret' = "do_action"
            /\ moves' = Append(moves, action)
            /\ UNCHANGED available_actions
       ELSE /\ ret' = "ValueError"
            /\ UNCHANGED <<available_actions, state, current_player, moves>>
    /\ UNCHANGED <<board_len, book>>

\* list.remove raises ValueError once previous_action is already assigned
do_action(action) ==
    /\ previous_action' = Some(action)
    /\ wiped' = None
    /\ IF action \in Range(available_actions)
       THEN /\ available_actions' = RemoveFirst(available_actions, action)
            /\ state' = Put(state, action, current_player)
            /\ current_player' = WHITE + BLACK - current_player
            /\ ret' = "do_action"
            /\ moves' = Append(moves, action)
       ELSE /\ ret' = "ValueError"
            /\ UNCHANGED <<available_actions, state, current_player, moves>>
    /\ UNCHANGED <<board_len, book>>

\* do_action_(pos): the index is computed from the pair and looked up in the legal list
do_action_(pos) ==
    /\ wiped' = None
    /\ \E action \in {pos[1] * board_len + pos[2]} :
           IF action \in Range(available_actions)
           THEN /\ previous_action' = Some(action)
                /\ available_actions' = RemoveFirst(available_actions, action)
                /\ state' = Put(state, action, current_player)
                /\ current_player' = WHITE + BLACK - current_player
                /\ ret' = "True"
                /\ moves' = Append(moves, action)
           ELSE /\ ret' = "False"
                /\ UNCHANGED <<previous_action, available_actions, state, current_player, moves>>
    /\ UNCHANGED <<board_len, book>>

Next ==
    \/ \E action \in Inputs : do_action(action) /\ UNCHANGED trainVars
    \/ \E pos \in PairInputs : do_action_(pos) /\ UNCHANGED trainVars
    \/ clear_board /\ UNCHANGED trainVars

Spec == Init /\ [][Next]_vars

\* the books under which get_feature_planes is read after every call: the
\* smallest board, two rows of five (five turns for either colour), the default
PlaneBooks ==
    { Book(2, {0, 1, 2, 3}, {0, 1, 2, 3}),
      Book(5, {0, 1, 2, 3, 4}, {5, 6, 7, 8, 9}),
      Book(9, {0, 1, 2, 3, 4}, {9, 10, 11, 12}) }

InitPlanes ==
    /\ book \in PlaneBooks
    /\ NewBoard(book.n)
    /\ NoPipeline

SpecPlanes == InitPlanes /\ [][Next]_vars

----------------------------------------------------------------------------
(* The search component (AlphaZeroMCTS), scripted *)

\* BLACK completes its row with the ninth move
BlackWins == <<0, 9, 1, 10, 2, 11, 3, 12, 4>>

\* BLACK strays with its fifth stone and WHITE completes its row with the tenth move
WhiteWins == <<0, 9, 1, 10, 2, 11, 3, 12, 20, 13>>

\* all 81 cells without five in a line
FullBoard ==
    <<0, 2, 1, 3, 4, 6, 5, 7, 8, 9, 11, 10, 12, 13, 15, 14, 16, 17,
       18, 20, 19, 21, 22, 24, 23, 25, 26, 27, 29, 28, 30, 31, 33, 32, 34, 35,
       36, 38, 37, 39, 40, 42, 41, 43, 44, 45, 47, 46, 48, 49, 51, 50, 52, 53,
       54, 56, 55, 57, 58, 60, 59, 61, 62, 63, 65, 64, 66, 67, 69, 68, 70, 71,
       72, 74, 73, 75, 76, 78, 77, 79, 80>>

Scripts == {BlackWins, WhiteWins, FullBoard}

\* the scripts open to the matches of a test: the first match may run to the
\* full board, the later ones are decided by the tenth move
TestScripts(match) == IF match = 0 THEN Scripts ELSE {BlackWins, WhiteWins}

Played(st) == [k \in 1..Len(st) |-> st[k][1]]

\* mcts.get_action(chess_board): the next move of any script the game has followed so far
get_action(scripts, st) ==
    {s[Len(st) + 1] :
        s \in {t \in scripts : Len(t) > Len(st) /\ SubSeq(t, 1, Len(st)) = Played(st)}}

----------------------------------------------------------------------------
(* TrainPipeLine *)

\* n_self_plays
NSelfPlays == 2

\* n_test_games
NTestGames == 20

\* the shuffles of the DataLoader: rotations by at most MaxShift, either way round
MaxShift == 1

\* the search fails only on a board of at most this many stones
MaxFailPly == 2

\* <<batch_size, check_frequency, does model/best_policy_value_net.pth exist>>
Configs == {<<4, 1, TRUE>>, <<4, 1, FALSE>>, <<10, 2, TRUE>>, <<10, 2, FALSE>>}

\* the weights found in a best-model file written by an earlier run
OldWeights == -1

\* seeded fault: the loser's examples are labelled 0
Outcomes_LoserZero(ps, winner) ==
    [k \in 1..Len(ps) |-> IF Some(ps[k]) = winner THEN 1 ELSE 0]

\* z = [1 if i == winner else -1 for i in players], [0]*len(players) without a winner
Outcomes(ps, winner) ==
    [k \in 1..Len(ps) |-> IF winner = None THEN 0 ELSE IF Some(ps[k]) = winner THEN 1 ELSE -1]

\* SelfPlayData(feature_planes_list, pi_list, z)
SelfPlayData(fpl, pil, zl) == <<fpl, pil, zl>>

\* SelfPlayDataSet.append: one example per ply, in order; id names the example
DatasetAppend(ds, data, episode) ==
    ds \o [k \in 1..Len(data[1]) |->
              [id |-> <<episode, k>>, planes |-> data[1][k], pi |-> data[2][k], z |-> data[3][k]]]

\* len(self.dataset)
DatasetLen(ds) == Len(ds)

\* self.dataset.clear()
DatasetClear(ds) == <<>>

\* RandomSampler: an order of the indices 1..n
Shuffle(n, shift, reversed) ==
    [k \in 1..n |-> LET r == ((k - 1 + shift) % n) + 1
                    IN  IF reversed THEN n + 1 - r ELSE r]

Shuffles(n) == {Shuffle(n, shift, reversed) : shift \in 0..MaxShift, reversed \in BOOLEAN}

\* seeded fault: drop_last=True
Batches_DropLast(order, size) ==
    [b \in 1..(Len(order) \div size) |-> SubSeq(order, (b - 1) * size + 1, b * size)]

\* DataLoader(self.dataset, self.batch_size, shuffle=True, drop_last=False)
Batches(order, size) ==
    [b \in 1..((Len(order) + size - 1) \div size) |->
        SubSeq(order, (b - 1) * size + 1,
               IF b * size < Len(order) THEN b * size ELSE Len(order))]

\* seeded fault: win_prob >= 0.55
WinProbAbove_OrEqual(wins, games) == 100 * wins >= 55 * games

\* n_wins/self.n_test_games > 0.55: the quotient is a float, and for fewer than
\* 10^14 games it exceeds the float 0.55 exactly when wins/games > 55/100
WinProbAbove(wins, games) == 100 * wins > 55 * games

\* seeded fault: the iterations counted from zero
CheckDue_ZeroBased(i, frequency) == i % frequency = 0

\* (i+1) % self.check_frequency == 0
CheckDue(i, frequency) == (i + 1) % frequency = 0

selfPlayLocals == <<feature_planes_list, pi_list, players, z_list>>
storeVars == <<dataset, pending, fed, appended, train_losses, loss>>
testVars == <<n_wins, game, gate>>
crashVars == <<last_model, losses_file, outcome>>
configVars == <<batch_size, check_frequency>>

InitTrain ==
    /\ book = Book(9, {}, {})
    /\ NewBoard(9)
    /\ pc = "loop"
    /\ loop_i = 0
    /\ \E c \in Configs :
           /\ batch_size = c[1]
           /\ check_frequency = c[2]
           /\ best_model = IF c[3] THEN Some(OldWeights) ELSE None
           \* __get_policy_value_net: the newest last_* model, else the best model, else a new net
           /\ net \in IF c[3] THEN {0, OldWeights} ELSE {0}
    /\ is_self_play = TRUE
    /\ net_mode = "train"
    /\ dataset = <<>>
    /\ pending = <<>>
    /\ fed = <<>>
    /\ appended = <<>>
    /\ train_losses = <<>>
    /\ loss = None
    /\ feature_planes_list = <<>>
    /\ pi_list = <<>>
    /\ players = <<>>
    /\ z_list = <<>>
    /\ n_wins = 0
    /\ game = 0
    /\ gate = Verdict("none", "none")
    /\ n_tests = 0
    /\ last_model = None
    /\ losses_file = None
    /\ outcome = "running"

\* for i in range(self.n_self_plays): eval(), and __self_play clears the board
start_self_play ==
    /\ pc = "loop"
    /\ loop_i < NSelfPlays
    /\ net_mode' = "eval"
    /\ clear_board
    /\ feature_planes_list' = <<>>
    /\ pi_list' = <<>>
    /\ players' = <<>>
    /\ z_list' = <<>>
    /\ pc' = "self_play"
    /\ UNCHANGED <<loop_i, configVars, is_self_play, net, best_model, storeVars, testVars, n_tests, crashVars>>

\* the loop of train is exhausted
finish ==
    /\ pc = "loop"
    /\ loop_i >= NSelfPlays
    /\ pc' = "done"
    /\ outcome' = "returned"
    /\ UNCHANGED <<boardVars, callVars, loop_i, configVars, is_self_play, net, net_mode,
                   best_model, storeVars, selfPlayLocals, testVars, n_tests, last_model,
                   losses_file>>

\* one turn of the loop of __self_play
self_play_step(action) ==
    /\ feature_planes_list' =
           Append(feature_planes_list, get_feature_planes(board_len, state, current_player))
    /\ players' = Append(players, current_player)
    /\ pi_list' = Append(pi_list, action)
    /\ do_action(action)
    /\ \E over \in {is_game_over(board_len, state', available_actions')} :
           IF over[1]
           THEN /\ z_list' = Outcomes(players', over[2])
                /\ pc' = "episode_over"
           ELSE /\ z_list' = z_list
                /\ pc' = "self_play"
    /\ UNCHANGED <<loop_i, configVars, is_self_play, net, net_mode, best_model, storeVars, testVars, n_tests, crashVars>>

\* seeded fault: the plies played before the failure reach the store
self_play_fails_KeepsPlies ==
    /\ pc = "self_play"
    /\ Len(state) <= MaxFailPly
    /\ dataset' = DatasetAppend(dataset,
                       SelfPlayData(feature_planes_list, pi_list, [k \in 1..Len(players) |-> 0]),
                       loop_i)
    /\ feature_planes_list' = <<>>
    /\ pi_list' = <<>>
    /\ players' = <<>>
    /\ z_list' = <<>>
    /\ pc' = "except"
    /\ UNCHANGED <<boardVars, callVars, loop_i, configVars, is_self_play, net, net_mode,
                   best_model, pending, fed, appended, train_losses, loss, testVars, n_tests,
                   crashVars>>

\* self.mcts.get_action raises in __self_play: its frame and that of train unwind
self_play_fails ==
    /\ pc = "self_play"
    /\ Len(state) <= MaxFailPly
    /\ feature_planes_list' = <<>>
    /\ pi_list' = <<>>
    /\ players' = <<>>
    /\ z_list' = <<>>
    /\ pc' = "except"
    /\ UNCHANGED <<boardVars, callVars, loop_i, configVars, is_self_play, net, net_mode,
                   best_model, storeVars, testVars, n_tests, crashVars>>

\* __self_play returns and train appends the episode
append_episode ==
    /\ pc = "episode_over"
    /\ dataset' = DatasetAppend(dataset, SelfPlayData(feature_planes_list, pi_list, z_list), loop_i)
    /\ appended' = appended \o [k \in 1..Len(z_list) |-> <<loop_i, k>>]
    /\ feature_planes_list' = <<>>
    /\ pi_list' = <<>>
    /\ players' = <<>>
    /\ z_list' = <<>>
    /\ pc' = "appended"
    /\ UNCHANGED <<boardVars, callVars, loop_i, configVars, is_self_play, net, net_mode,
                   best_model, pending, fed, train_losses, loss, testVars, n_tests, crashVars>>

\* if len(self.dataset) >= self.batch_size: the DataLoader shuffles, train()
begin_drain ==
    /\ pc = "appended"
    /\ DatasetLen(dataset) >= batch_size
    /\ \E order \in Shuffles(DatasetLen(dataset)) : pending' = Batches(order, batch_size)
    /\ fed' = <<>>
    /\ net_mode' = "train"
    /\ pc' = "training"
    /\ UNCHANGED <<boardVars, callVars, loop_i, configVars, is_self_play, net, best_model,
                   dataset, appended, train_losses, loss, selfPlayLocals, testVars, n_tests, crashVars>>

\* the store is still smaller than a batch
skip_drain ==
    /\ pc = "appended"
    /\ DatasetLen(dataset) < batch_size
    /\ pc' = "check"
    /\ UNCHANGED <<boardVars, callVars, loop_i, configVars, is_self_play, net, net_mode,
                   best_model, storeVars, selfPlayLocals, testVars, n_tests, crashVars>>

\* one batch: forward, loss, backward, optimizer and scheduler step
train_batch ==
    /\ pc = "training"
    /\ pending # <<>>
    /\ fed' = Append(fed, [k \in 1..Len(Head(pending)) |-> dataset[Head(pending)[k]].id])
    /\ pending' = Tail(pending)
    /\ net' = loop_i + 1
    /\ loss' = Some([iteration |-> loop_i, final |-> Len(pending) = 1])
    /\ UNCHANGED <<boardVars, callVars, pc, loop_i, configVars, is_self_play, net_mode,
                   best_model, dataset, appended, train_losses, selfPlayLocals, testVars, n_tests, crashVars>>

\* after the last batch: the loss is recorded and the store cleared
end_drain ==
    /\ pc = "training"
    /\ pending = <<>>
    /\ train_losses' = Append(train_losses, loss[1])
    /\ dataset' = DatasetClear(dataset)
    /\ fed' = <<>>
    /\ appended' = <<>>
    /\ pc' = "drained"
    /\ UNCHANGED <<boardVars, callVars, loop_i, configVars, is_self_play, net, net_mode,
                   best_model, pending, loss, selfPlayLocals, testVars, n_tests, crashVars>>

\* (i+1) % self.check_frequency != 0
skip_test ==
    /\ pc \in {"drained", "check"}
    /\ ~CheckDue(loop_i, check_frequency)
    /\ loop_i' = loop_i + 1
    /\ pc' = "loop"
    /\ UNCHANGED <<boardVars, callVars, configVars, is_self_play, net, net_mode, best_model,
                   storeVars, selfPlayLocals, testVars, n_tests, crashVars>>

\* seeded fault: the board is cleared on the way
save_first_best_ClearsBoard ==
    /\ pc \in {"drained", "check"}
    /\ CheckDue(loop_i, check_frequency)
    /\ best_model = None
    /\ net_mode' = "eval"
    /\ best_model' = Some(net)
    /\ gate' = Verdict("first", "none")
    /\ n_tests' = n_tests + 1
    /\ loop_i' = loop_i + 1
    /\ pc' = "loop"
    /\ clear_board
    /\ UNCHANGED <<configVars, is_self_play, net, storeVars,
                   selfPlayLocals, n_wins, game, crashVars>>

\* __test_model without a best model: the current one is saved as the best
save_first_best ==
    /\ pc \in {"drained", "check"}
    /\ CheckDue(loop_i, check_frequency)
    /\ best_model = None
    /\ net_mode' = "eval"
    /\ best_model' = Some(net)
    /\ gate' = Verdict("first", "none")
    /\ n_tests' = n_tests + 1
    /\ loop_i' = loop_i + 1
    /\ pc' = "loop"
    /\ UNCHANGED <<boardVars, callVars, configVars, is_self_play, net, storeVars,
                   selfPlayLocals, n_wins, game, crashVars>>

\* __test_model with a best model: it is loaded and self-play mode goes off
begin_test ==
    /\ pc \in {"drained", "check"}
    /\ CheckDue(loop_i, check_frequency)
    /\ best_model # None
    /\ net_mode' = "eval"
    /\ is_self_play' = FALSE
    /\ n_wins' = 0
    /\ game' = 0
    /\ gate' = Verdict("running", "none")
    /\ n_tests' = n_tests + 1
    /\ pc' = "match"
    /\ UNCHANGED <<boardVars, callVars, loop_i, configVars, net, best_model, storeVars,
                   selfPlayLocals, crashVars>>

\* for i in range(self.n_test_games): the board is cleared, the roots reset
begin_match ==
    /\ pc = "match"
    /\ game < NTestGames
    /\ clear_board
    /\ pc' = "candidate"
    /\ UNCHANGED <<loop_i, configVars, is_self_play, net, net_mode, best_model, storeVars,
                   selfPlayLocals, testVars, n_tests, crashVars>>

\* seeded fault: every game that ends on this move is counted as won
candidate_move_CountsEveryEnd(action) ==
    /\ do_action(action)
    /\ \E over \in {is_game_over(board_len, state', available_actions')} :
           IF over[1]
           THEN /\ n_wins' = n_wins + 1
                /\ game' = game + 1
                /\ pc' = "match"
           ELSE /\ pc' = "best"
                /\ UNCHANGED <<n_wins, game>>
    /\ UNCHANGED <<loop_i, configVars, is_self_play, net, net_mode, best_model, storeVars,
                   selfPlayLocals, gate, n_tests, crashVars>>

\* the current model moves
candidate_move(action) ==
    /\ do_action(action)
    /\ \E over \in {is_game_over(board_len, state', available_actions')} :
           IF over[1]
           THEN /\ n_wins' = n_wins + (IF over[2] = Some(BLACK) THEN 1 ELSE 0)
                /\ game' = game + 1
                /\ pc' = "match"
           ELSE /\ pc' = "best"
                /\ UNCHANGED <<n_wins, game>>
    /\ UNCHANGED <<loop_i, configVars, is_self_play, net, net_mode, best_model, storeVars,
                   selfPlayLocals, gate, n_tests, crashVars>>

\* the best model moves
best_move(action) ==
    /\ do_action(action)
    /\ \E over \in {is_game_over(board_len, state', available_actions')} :
           IF over[1]
           THEN /\ game' = game + 1
                /\ pc' = "match"
           ELSE /\ pc' = "candidate"
                /\ game' = game
    /\ UNCHANGED <<loop_i, configVars, is_self_play, net, net_mode, best_model, storeVars,
                   selfPlayLocals, n_wins, gate, n_tests, crashVars>>

\* mcts.get_action raises in __do_mcts_action: the frames of __test_model and train unwind
test_fails ==
    /\ pc \in {"candidate", "best"}
    /\ Len(state) <= MaxFailPly
    /\ n_wins' = 0
    /\ game' = 0
    /\ pc' = "except"
    /\ UNCHANGED <<boardVars, callVars, loop_i, configVars, is_self_play, net, net_mode,
                   best_model, storeVars, selfPlayLocals, gate, n_tests, crashVars>>

\* the except clause of save_model: the model and the losses are written, nothing is raised
save_model_except ==
    /\ pc = "except"
    /\ last_model' = Some(net)
    /\ losses_file' = Some(train_losses)
    /\ outcome' = "returned"
    /\ pc' = "done"
    /\ UNCHANGED <<boardVars, callVars, loop_i, configVars, is_self_play, net, net_mode,
                   best_model, storeVars, selfPlayLocals, testVars, n_tests>>

\* seeded fault: self-play mode is not switched back on
end_test_NoRestore ==
    /\ pc = "match"
    /\ game >= NTestGames
    /\ IF WinProbAbove(n_wins, NTestGames)
       THEN /\ best_model' = Some(net)
            /\ gate' = Verdict("promoted", RateAgainst55(n_wins, NTestGames))
       ELSE /\ best_model' = best_model
            /\ gate' = Verdict("kept", RateAgainst55(n_wins, NTestGames))
    /\ is_self_play' = is_self_play
    /\ n_wins' = 0
    /\ game' = 0
    /\ loop_i' = loop_i + 1
    /\ pc' = "loop"
    /\ UNCHANGED <<boardVars, callVars, configVars, net, net_mode, storeVars, selfPlayLocals,
                   n_tests, crashVars>>

\* after the matches: the current model is saved as the best on a win rate above 55%
end_test ==
    /\ pc = "match"
    /\ game >= NTestGames
    /\ IF WinProbAbove(n_wins, NTestGames)
       THEN /\ best_model' = Some(net)
            /\ gate' = Verdict("promoted", RateAgainst55(n_wins, NTestGames))
       ELSE /\ best_model' = best_model
            /\ gate' = Verdict("kept", RateAgainst55(n_wins, NTestGames))
    /\ is_self_play' = TRUE
    /\ n_wins' = 0
    /\ game' = 0
    /\ loop_i' = loop_i + 1
    /\ pc' = "loop"
    /\ UNCHANGED <<boardVars, callVars, configVars, net, net_mode, storeVars, selfPlayLocals,
                   n_tests, crashVars>>

NextTrain ==
    \/ start_self_play
    \/ pc = "self_play" /\ \E action \in get_action(Scripts, state) : self_play_step(action)
    \/ append_episode
    \/ begin_drain
    \/ skip_drain
    \/ train_batch
    \/ end_drain
    \/ skip_test
    \/ save_first_best
    \/ begin_test
    \/ begin_match
    \/ pc = "candidate" /\ \E action \in get_action(TestScripts(game), state) : candidate_move(action)
    \/ pc = "best" /\ \E action \in get_action(TestScripts(game), state) : best_move(action)
    \/ end_test
    \/ finish
    \/ self_play_fails
    \/ test_fails
    \/ save_model_except

SpecTrain == InitTrain /\ [][NextTrain]_vars

----------------------------------------------------------------------------
(* Properties of the board engine *)

Cells == 0..(board_len * board_len - 1)

Over == is_game_over(board_len, state, available_actions)

Directions == {<<0, 1>>, <<1, 0>>, <<1, 1>>, <<1, -1>>}

\* colour c owns the five cells from (row, col) along d, all five on the board
LineOwnedBy(row, col, d, c) ==
    \A j \in 0..4 :
        /\ row + j * d[1] \in 0..(board_len - 1)
        /\ col + j * d[2] \in 0..(board_len - 1)
        /\ Get(state, (row + j * d[1]) * board_len + col + j * d[2]) = c

\* the stones, by move number, that are the first cell of a run of their own colour
RunStarts(c) ==
    {k \in 1..Len(state) :
        /\ state[k][2] = c
        /\ \E d \in Directions :
               LineOwnedBy(state[k][1] \div board_len, state[k][1] % board_len, d, c)}

\* colour c owns five cells in a line on the board (its first cell is a stone of c)
HasRun(c) == RunStarts(c) # {}

\* the move number of colour c's earliest-played run-starting stone, 0 without a run
FirstRunStart(c) ==
    LET starts == RunStarts(c)
    IN  IF starts = {} THEN 0 ELSE Min(starts)

NoRun == \A c \in {BLACK, WHITE} : ~HasRun(c)

Full == Keys(state) = Cells

\* C1: after k legal moves on an empty board k cells are occupied, the legal
\* list holds n^2 - k indices, and it is exactly the unoccupied cells.
C1_OccupiedAndLegal ==
    /\ Len(state) = Len(moves)
    /\ Cardinality(Keys(state)) = Len(moves)
    /\ Len(available_actions) = board_len * board_len - Len(moves)
    /\ Range(available_actions) = Cells \ Keys(state)

C1_Witness ==
    /\ board_len = 3
    /\ Len(moves) = 9
    /\ available_actions = <<>>

\* C2: do_action with an occupied or out-of-range index fails and leaves the
\* occupied mapping, the player to move, the previous action and the legal
\* list as they were.
C2_IllegalMoveLeavesBoard ==
    [][\A action \in {-1} \cup Cells \cup {board_len * board_len} :
           (action \notin Range(available_actions) /\ do_action(action))
               => (ret' = "ValueError" /\ UNCHANGED boardVars)]_vars

\* C3, as stated: a win is reported for colour c exactly when c owns five
\* cells in a line on the board.
C3_WinIffRun_AsStated ==
    \A c \in {BLACK, WHITE} : (Over = <<TRUE, Some(c)>>) <=> HasRun(c)

\* C3, amended: a win is reported exactly when some colour owns five cells in
\* a line; the colour reported owns such a line, and when both do it is the
\* colour whose run-starting stone was played first.
C3_WinIffRun ==
    \A over \in {Over}, first \in {[c \in {BLACK, WHITE} |-> FirstRunStart(c)]} :
        /\ (over[2] # None) <=> (first[BLACK] # 0 \/ first[WHITE] # 0)
        /\ over[2] # None => over[1]
        /\ \A c \in {BLACK, WHITE} :
               (over = <<TRUE, Some(c)>>) <=>
                   /\ first[c] # 0
                   /\ first[BLACK + WHITE - c] # 0 => first[c] < first[BLACK + WHITE - c]

C3_Witness ==
    /\ HasRun(BLACK)
    /\ HasRun(WHITE)
    /\ Over = <<TRUE, Some(WHITE)>>

\* C4, as stated: a full board without a run is a draw, and a board with a
\* legal move left and no run is not over.
C4_Draw_AsStated ==
    NoRun =>
        Over = IF Full THEN <<TRUE, None>> ELSE <<FALSE, None>>

\* C4, amended: a full board of at least nine cells without a run is a draw;
\* a board with a legal move left, or a full board of fewer than nine cells,
\* is not over when there is no run.
C4_Draw ==
    NoRun =>
        Over = IF Full /\ board_len * board_len >= 9 THEN <<TRUE, None>> ELSE <<FALSE, None>>

C4_Witness ==
    /\ Full
    /\ board_len = 3
    /\ Over = <<TRUE, None>>

\* C5: with fewer than nine moves played is_game_over returns (False, None).
C5_NineMoveFloor ==
    Len(moves) < 9 => Over = <<FALSE, None>>

C5_Witness ==
    /\ Len(moves) < 9
    /\ Full
    /\ ret = "do_action"

\* C6: on the 9x9 board the moves 0, 9, 1, 10, 2, 11, 3, 12, 4 leave the game
\* open after each of the first eight and won by BLACK after the ninth.
C6Moves == <<0, 9, 1, 10, 2, 11, 3, 12, 4>>

C6_NinthMoveWins ==
    (board_len = 9 /\ Len(moves) <= 9 /\ moves = SubSeq(C6Moves, 1, Len(moves))) =>
        /\ \A k \in 1..Len(moves) : Get(state, C6Moves[k]) = k % 2
        /\ Over = IF Len(moves) = 9 THEN <<TRUE, Some(BLACK)>> ELSE <<FALSE, None>>

C6_Witness ==
    /\ board_len = 9
    /\ moves = C6Moves
    /\ ret = "do_action"

\* C7: the feature tensor of the empty board is zero in channels 0..7 and
\* BLACK's indicator everywhere in the last channel.
C7_EmptyBoardPlanes ==
    state = <<>> =>
        LET planes == get_feature_planes(board_len, state, current_player)
        IN  \A row \in 0..(board_len - 1), col \in 0..(board_len - 1) :
                /\ \A ch \in 0..7 : planes[ch][row][col] = 0
                /\ planes[8][row][col] = BLACK

C7_Witness ==
    /\ state = <<>>
    /\ ret = "clear_board"

----------------------------------------------------------------------------
(* Properties of the training pipeline *)

RECURSIVE Flatten(_)
Flatten(batches) ==
    IF batches = <<>> THEN <<>> ELSE Head(batches) \o Flatten(Tail(batches))

Occurrences(x, seq) == Cardinality({k \in DOMAIN seq : seq[k] = x})

\* C8: a drain starts only on a store of at least batch_size examples; the
\* batches it hands to the trainer hold, as a multiset, exactly the examples
\* appended since the previous drain, every batch of batch_size examples but
\* the last, which may be smaller; and the store is empty when it completes.
C8_DrainFeedsEveryExampleOnce ==
    /\ pc = "training" => DatasetLen(dataset) >= batch_size
    /\ (pc = "training" /\ pending = <<>>) =>
           \A given \in {Flatten(fed)} :
               /\ Len(given) = Len(appended)
               /\ \A x \in Range(given) \cup Range(appended) :
                      Occurrences(x, given) = Occurrences(x, appended)
               /\ \A b \in 1..Len(fed) :
                      /\ Len(fed[b]) \in 1..batch_size
                      /\ b < Len(fed) => Len(fed[b]) = batch_size
    /\ pc = "drained" => DatasetLen(dataset) = 0

C8_Witness ==
    /\ pc = "training"
    /\ pending = <<>>
    /\ Len(fed) = 2
    /\ Len(fed[2]) < batch_size
    /\ \E a, b \in Range(appended) : a[1] # b[1]

\* C9: with a best model and n_wins wins counted over the n_test_games
\* matches, the test ends by saving the current model as the best exactly when
\* n_wins/n_test_games > 55/100; otherwise (at 0.5 and at exactly 0.55 too)
\* the best model stays as it was.
C9_PromotedIffAbove55 ==
    [][(pc = "match" /\ pc' = "loop") =>
           /\ best_model # None
           /\ game = NTestGames
           /\ IF 20 * n_wins > 11 * NTestGames
              THEN best_model' = Some(net) /\ gate'.how = "promoted"
              ELSE best_model' = best_model /\ gate'.how = "kept"]_vars

C9_Witness ==
    /\ gate = Verdict("kept", "equal")
    /\ best_model = Some(OldWeights)
    /\ net # OldWeights
    /\ pc = "loop"

\* C10: a finished self-play episode holds one example per ply; the k-th has
\* the mover of ply k and the feature planes of the board before ply k; its
\* label is +1 when its mover is the winner, -1 when its mover is the loser,
\* and every label is 0 when the game is a draw.
C10_EpisodeExamples ==
    pc = "episode_over" =>
        \A over \in {Over} :
            /\ over[1]
            /\ Len(feature_planes_list) = Len(state)
            /\ Len(pi_list) = Len(state)
            /\ Len(players) = Len(state)
            /\ Len(z_list) = Len(state)
            /\ \A k \in 1..Len(state) :
                   /\ players[k] = state[k][2]
                   /\ feature_planes_list[k] =
                          get_feature_planes(board_len, SubSeq(state, 1, k - 1), state[k][2])
                   /\ z_list[k] = IF over[2] = None THEN 0
                                  ELSE IF over[2] = Some(players[k]) THEN 1
                                  ELSE -1

C10_Witness ==
    /\ pc = "episode_over"
    /\ Over = <<TRUE, Some(WHITE)>>
    /\ z_list[1] = -1
    /\ z_list[2] = 1
    /\ Len(z_list) = 10

\* C11: when the training loop fails, the wrapper of train saves the model in
\* progress and writes the recorded losses, and the failure then reaches the
\* caller of train.
C11_FailurePropagates ==
    [][pc = "except" =>
           /\ last_model' = Some(net)
           /\ losses_file' = Some(train_losses)
           /\ outcome' = "raised"]_vars

\* C12: after clear_board, whatever was played before, the board is as
\* __init__ leaves a board of the same size: no stones, BLACK to move, no
\* previous action, every cell legal.
C12_ClearEqualsNew ==
    wiped # None =>
        /\ state = <<>>
        /\ current_player = BLACK
        /\ previous_action = None
        /\ available_actions = RangeList(board_len * board_len)

C12_Witness ==
    /\ board_len = 9
    /\ wiped = Some(9)
    /\ available_actions = RangeList(81)

\* C13: do_action_((row, col)) returns True and places the current player's
\* stone on (row, col) exactly when both coordinates are on the board and the
\* cell is free; otherwise it returns False and the board is as it was.
C13_PairMoveOnBoardOnly ==
    [][\A pos \in Coordinates \X Coordinates :
           do_action_(pos) =>
               IF /\ pos[1] \in 0..(board_len - 1)
                  /\ pos[2] \in 0..(board_len - 1)
                  /\ pos[1] * board_len + pos[2] \notin Keys(state)
               THEN /\ ret' = "True"
                    /\ state' = Append(state, <<pos[1] * board_len + pos[2], current_player>>)
                    /\ current_player' = WHITE + BLACK - current_player
               ELSE /\ ret' = "False"
                    /\ UNCHANGED boardVars]_vars

\* the cells of player p's stones, in the order they were played
PlayedBy(p) ==
    LET own == SelectSeq(state, LAMBDA e : e[2] = p)
    IN  [k \in 1..Len(own) |-> own[k][1]]

\* the cells of p's most recent k turns
LastTurns(p, k) ==
    LET own == PlayedBy(p)
    IN  {own[j] : j \in {j \in 1..Len(own) : j > Len(own) - k}}

\* the cells of p's stones without those of p's most recent i turns
AllButLastTurns(p, i) ==
    LET own == PlayedBy(p)
    IN  {own[j] : j \in 1..(Len(own) - i)}

Opponent == WHITE + BLACK - current_player

\* C14, as stated: channel 2i is a 0/1 mask that is 1 on every cell of the
\* current player's most recent i+1 turns, channel 2i+1 likewise for the
\* opponent, and the last channel is the current player's colour everywhere.
C14_RecentTurns_AsStated ==
    \A planes \in {get_feature_planes(board_len, state, current_player)} :
        \A row \in 0..(board_len - 1), col \in 0..(board_len - 1) :
            /\ planes[8][row][col] = current_player
            /\ \A i \in 0..3 :
                   /\ planes[2 * i][row][col] \in {0, 1}
                   /\ planes[2 * i + 1][row][col] \in {0, 1}
                   /\ row * board_len + col \in LastTurns(current_player, i + 1)
                          => planes[2 * i][row][col] = 1
                   /\ row * board_len + col \in LastTurns(Opponent, i + 1)
                          => planes[2 * i + 1][row][col] = 1

\* C14, amended: channel 2i is 1 exactly on the current player's stones other
\* than those of their most recent i turns, channel 2i+1 likewise for the
\* opponent, and the last channel is the current player's colour everywhere.
C14_StonesAsOfTurnsAgo ==
    \A planes \in {get_feature_planes(board_len, state, current_player)},
       mine \in {[i \in 0..3 |-> AllButLastTurns(current_player, i)]},
       theirs \in {[i \in 0..3 |-> AllButLastTurns(Opponent, i)]} :
        \A row \in 0..(board_len - 1), col \in 0..(board_len - 1) :
            /\ planes[8][row][col] = current_player
            /\ \A i \in 0..3 :
                   /\ planes[2 * i][row][col] =
                          IF row * board_len + col \in mine[i] THEN 1 ELSE 0
                   /\ planes[2 * i + 1][row][col] =
                          IF row * board_len + col \in theirs[i] THEN 1 ELSE 0

C14_Witness ==
    /\ board_len = 5
    /\ Len(state) = 7
    /\ ret = "do_action"
    /\ AllButLastTurns(current_player, 2) # {}
    /\ AllButLastTurns(current_player, 3) = {}

\* C15: a self-play episode leaves the store as it was until it is appended
\* whole, so an episode the search fails in adds nothing, its plies played so
\* far included; after the failure the run only writes its checkpoint and
\* ends: the episode is not played again and no other is started.
C15_FailedEpisodeAddsNothing ==
    [][/\ pc = "self_play" => UNCHANGED dataset
       /\ pc = "except" => (pc' = "done" /\ UNCHANGED <<dataset, loop_i, boardVars>>)
       /\ pc # "done"]_vars

C15_Witness ==
    /\ pc = "done"
    /\ last_model # None
    /\ n_tests = 0
    /\ loop_i = 1
    /\ Len(state) = 2
    /\ Len(dataset) = 9

\* C16: __test_model is entered exactly at the end of an iteration whose
\* 1-based index is a multiple of check_frequency, after its self-play and
\* training, and a run without a failure has entered it
\* n_self_plays \div check_frequency times when it ends.
C16_GateEveryCheckFrequency ==
    [][/\ n_tests' \in {n_tests, n_tests + 1}
       /\ (n_tests' = n_tests + 1) <=>
              (pc \in {"drained", "check"} /\ (loop_i + 1) % check_frequency = 0)
       /\ n_tests' = (IF gate'.how = "running" THEN loop_i' + 1 ELSE loop_i') \div check_frequency
       /\ (pc' = "done" /\ last_model' = None) =>
              n_tests' = NSelfPlays \div check_frequency]_vars

C16_Witness ==
    /\ pc = "done"
    /\ last_model = None
    /\ check_frequency = 2
    /\ n_tests = NSelfPlays \div 2
    /\ n_tests > 0

\* C17: entered without a best model, __test_model saves the current model as
\* the best and returns: the board and its legal list are as they were, no
\* move is made and no match counted; and the best model changes in no step
\* other than this one and the end of a test.
C17_FirstBestWithoutPlay ==
    [][/\ (best_model = None /\ n_tests' = n_tests + 1) =>
              /\ best_model' = Some(net)
              /\ gate'.how = "first"
              /\ pc' = "loop"
              /\ UNCHANGED <<boardVars, callVars, n_wins, game>>
       /\ best_model' # best_model =>
              \/ pc \in {"drained", "check"} /\ n_tests' = n_tests + 1 /\ best_model = None
              \/ pc = "match" /\ gate.how = "running" /\ game = NTestGames]_vars

C17_Witness ==
    /\ gate.how = "first"
    /\ pc = "loop"
    /\ best_model = Some(net)
    /\ Len(state) = 81
    /\ wiped = None

\* C18: while no failure has occurred, the search of the current model is in
\* self-play mode at every move of a self-play episode and out of it at every
\* move of a test match, and it is in self-play mode whenever __test_model has
\* returned, on either verdict and when it saved the first best model.
C18_SelfPlayModeFollowsPhase ==
    (pc # "except" /\ last_model = None) =>
        /\ pc \in {"self_play", "episode_over"} => is_self_play
        /\ pc \in {"match", "candidate", "best"} => ~is_self_play
        /\ gate.how \in {"first", "promoted", "kept"} => is_self_play

C18_Witness ==
    /\ gate.how = "first"
    /\ pc = "self_play"
    /\ Len(state) = 3
    /\ is_self_play
    /\ last_model = None

\* C19: on the 9x9 board, fed legal moves, a self-play episode or a test
\* match is never still in play on a full board: is_game_over says over on a
\* board without a legal move, so the play loop ends with the 81st move at
\* the latest.
C19_PlayEndsByFullBoard ==
    /\ board_len = 9
    /\ Len(state) <= 81
    /\ pc \in {"self_play", "candidate", "best"} =>
           (Len(state) < 81 /\ available_actions # <<>>)
    /\ available_actions = <<>> => (Len(state) = 81 /\ Over[1])

C19_Witness ==
    /\ pc = "match"
    /\ game = 1
    /\ Len(state) = 81
    /\ available_actions = <<>>

\* C20: in self-play and in the test matches, where is_game_over is called
\* after every move and play stops at the first end, a winner is always the
\* player who has just moved; n_wins goes up by one only on a move of the
\* current model that BLACK wins, never on a move of the best model, and it
\* stays within 0..n_test_games, never above the games played.
C20_WinnerMovedLast ==
    [][/\ state' # state /\ state' # <<>> =>
              \A over \in {is_game_over(board_len', state', available_actions')} :
                  /\ over[2] # None => over[2] = Some(current_player)
                  /\ n_wins' > n_wins => (over = <<TRUE, Some(BLACK)>> /\ current_player = BLACK)
       /\ n_wins' > n_wins => (pc = "candidate" /\ n_wins' = n_wins + 1)
       /\ n_wins' \in 0..NTestGames
       /\ n_wins' <= game'
       /\ game' <= NTestGames]_vars

C20_Witness ==
    /\ pc = "match"
    /\ game = NTestGames
    /\ n_wins \in 1..(NTestGames - 1)
    /\ Over = <<TRUE, Some(WHITE)>>

====
